---- MODULE Spec2Model ----
(***************************************************************************)
(* Model of the ntomb detection rule engine (src/ntomb_mcp):               *)
(*   detection_rules.py  DetectionRule.matches_connection,                 *)
(*                       load_detection_rules, analyze_connection,         *)
(*                       _is_private_ip                                    *)
(*   server.py           get_detection_config, list_connections,           *)
(*                       analyze_connections, explain_connection,          *)
(*                       compare_baseline, suggest_new_rule,               *)
(*                       analyze_spec_consistency                          *)
(* Python dicts are functions whose DOMAIN is the set of keys present, an  *)
(* Optional value is a sequence of length 0 (None) or 1, strings are TLA+  *)
(* strings handled with Len, SubSeq and \o.                                *)
(***************************************************************************)
EXTENDS Integers, Sequences, FiniteSets, TLC

VARIABLES
    m_rule,             \* matcher: the DetectionRule under evaluation
    m_conn,             \* matcher: the connection dict
    m_out,              \* matcher: <<>> or <<[matched, reasons]>>
    a_conn,             \* analyzer: the connection dict
    a_config,           \* analyzer: the DetectionConfig (its rules)
    a_out,              \* analyzer: <<>> or <<analysis>>
    document,           \* server: the rule document on disk
    _detection_config,  \* server: the module-level cache (None = <<>>)
    result,             \* server: outcome of the last tool call
    b_net,              \* baseline: psutil.net_connections() at the call
    b_pids,             \* baseline: the baseline_pids argument
    b_remotes,          \* baseline: the baseline_remotes argument
    b_out,              \* baseline: <<>> or <<report>>
    c_ip,               \* classifier: the address handed to _is_private_ip
    c_out,              \* classifier: <<>> or <<the boolean returned>>
    c_server_out,       \* classifier of server.py: <<>> or <<[raised, value]>>
    g_description,      \* suggester: the pattern_description argument
    g_samples,          \* suggester: the observed_connections argument
    g_out,              \* suggester: <<>> or <<the locals of suggest_new_rule>>
    e_net,              \* explainer: psutil.net_connections() at the call
    e_pid,              \* explainer: the pid argument
    e_remote_address,   \* explainer: the remote_address argument
    e_remote_port       \* explainer: the remote_port argument

vars == <<m_rule, m_conn, m_out, a_conn, a_config, a_out,
          document, _detection_config, result,
          b_net, b_pids, b_remotes, b_out,
          c_ip, c_out, c_server_out, g_description, g_samples, g_out,
          e_net, e_pid, e_remote_address, e_remote_port>>

m_vars == <<m_rule, m_conn, m_out>>
a_vars == <<a_conn, a_config, a_out>>
s_vars == <<document, _detection_config, result>>
b_vars == <<b_net, b_pids, b_remotes, b_out>>
c_vars == <<c_ip, c_out, c_server_out>>
g_vars == <<g_description, g_samples, g_out>>
e_vars == <<e_net, e_pid, e_remote_address, e_remote_port>>

-----------------------------------------------------------------------------
(* Bounds of the model.                                                    *)

MaxRules == 2        \* rules in a DetectionConfig handed to analyze_connection
MaxConns == 3        \* connections psutil.net_connections() returns to compare_baseline
MaxBaseline == 2     \* entries in a baseline_pids / baseline_remotes list
MaxSamples == 2      \* entries in an observed_connections list
MaxInventory == 2    \* connections psutil.net_connections() returns to a server tool

-----------------------------------------------------------------------------
(* Python built-ins used by the code.                                      *)

None == <<>>
Some(v) == <<v>>

\* a local assigned once and read several times: F applied to the value of v
Let(v, F(_)) == CHOOSE r \in {F(x) : x \in {v}} : TRUE

\* dict.get(key, default)
Get(d, key, default) == IF key \in DOMAIN d THEN d[key] ELSE default

\* a dict entry that is present only when the option holds a value
Entry(key, opt) == IF opt = None THEN <<>> ELSE key :> opt[1]

\* str.startswith
StartsWith(s, p) == Len(s) >= Len(p) /\ SubSeq(s, 1, Len(p)) = p

UpperChar(c) ==
    CASE c = "a" -> "A" [] c = "b" -> "B" [] c = "c" -> "C" [] c = "d" -> "D"
      [] c = "e" -> "E" [] c = "f" -> "F" [] c = "g" -> "G" [] c = "h" -> "H"
      [] c = "i" -> "I" [] c = "j" -> "J" [] c = "k" -> "K" [] c = "l" -> "L"
      [] c = "m" -> "M" [] c = "n" -> "N" [] c = "o" -> "O" [] c = "p" -> "P"
      [] c = "q" -> "Q" [] c = "r" -> "R" [] c = "s" -> "S" [] c = "t" -> "T"
      [] c = "u" -> "U" [] c = "v" -> "V" [] c = "w" -> "W" [] c = "x" -> "X"
      [] c = "y" -> "Y" [] c = "z" -> "Z" [] OTHER -> c

\* str.upper
RECURSIVE Upper(_)
Upper(s) ==
    IF Len(s) = 0 THEN ""
    ELSE UpperChar(SubSeq(s, 1, 1)) \o Upper(SubSeq(s, 2, Len(s)))

LowerChar(c) ==
    CASE c = "A" -> "a" [] c = "B" -> "b" [] c = "C" -> "c" [] c = "D" -> "d"
      [] c = "E" -> "e" [] c = "F" -> "f" [] c = "G" -> "g" [] c = "H" -> "h"
      [] c = "I" -> "i" [] c = "J" -> "j" [] c = "K" -> "k" [] c = "L" -> "l"
      [] c = "M" -> "m" [] c = "N" -> "n" [] c = "O" -> "o" [] c = "P" -> "p"
      [] c = "Q" -> "q" [] c = "R" -> "r" [] c = "S" -> "s" [] c = "T" -> "t"
      [] c = "U" -> "u" [] c = "V" -> "v" [] c = "W" -> "w" [] c = "X" -> "x"
      [] c = "Y" -> "y" [] c = "Z" -> "z" [] OTHER -> c

\* str.lower
RECURSIVE Lower(_)
Lower(s) ==
    IF Len(s) = 0 THEN ""
    ELSE LowerChar(SubSeq(s, 1, 1)) \o Lower(SubSeq(s, 2, Len(s)))

\* word in s, for strings
Contains(s, word) ==
    \E i \in 1..(Len(s) - Len(word) + 1) : SubSeq(s, i, i + Len(word) - 1) = word

\* str.split(sep) for a one-character separator
RECURSIVE SplitFrom(_, _, _)
SplitFrom(s, sep, cur) ==
    IF Len(s) = 0 THEN <<cur>>
    ELSE IF SubSeq(s, 1, 1) = sep
         THEN <<cur>> \o SplitFrom(SubSeq(s, 2, Len(s)), sep, "")
         ELSE SplitFrom(SubSeq(s, 2, Len(s)), sep, cur \o SubSeq(s, 1, 1))

Split(s, sep) == SplitFrom(s, sep, "")

DigitValue(c) ==
    CASE c = "0" -> 0 [] c = "1" -> 1 [] c = "2" -> 2 [] c = "3" -> 3
      [] c = "4" -> 4 [] c = "5" -> 5 [] c = "6" -> 6 [] c = "7" -> 7
      [] c = "8" -> 8 [] c = "9" -> 9 [] OTHER -> -1

RECURSIVE AllDigits(_)
AllDigits(s) ==
    Len(s) = 0 \/ (DigitValue(SubSeq(s, 1, 1)) >= 0 /\ AllDigits(SubSeq(s, 2, Len(s))))

RECURSIVE DigitsValue(_, _)
DigitsValue(s, acc) ==
    IF Len(s) = 0 THEN acc
    ELSE DigitsValue(SubSeq(s, 2, Len(s)), 10 * acc + DigitValue(SubSeq(s, 1, 1)))

\* int(s): None stands for ValueError.  An optional sign followed by decimal
\* digits is accepted; everything else the addresses can hold is rejected.
ParseInt(s) ==
    LET signed == Len(s) > 0 /\ SubSeq(s, 1, 1) \in {"+", "-"}
        body   == IF signed THEN SubSeq(s, 2, Len(s)) ELSE s
    IN IF Len(body) = 0 \/ ~AllDigits(body) THEN None
       ELSE IF signed /\ SubSeq(s, 1, 1) = "-" THEN Some(0 - DigitsValue(body, 0))
       ELSE Some(DigitsValue(body, 0))

\* repr() of a list of plain strings, as an f-string formats it
RECURSIVE ReprItems(_)
ReprItems(xs) ==
    IF Len(xs) = 0 THEN ""
    ELSE IF Len(xs) = 1 THEN "'" \o xs[1] \o "'"
    ELSE "'" \o xs[1] \o "', " \o ReprItems(Tail(xs))

ListRepr(xs) == "[" \o ReprItems(xs) \o "]"

\* [f(x) for x in xs]
UpperAll(xs) == [i \in 1..Len(xs) |-> Upper(xs[i])]

\* x in list
InList(x, xs) == \E i \in 1..Len(xs) : xs[i] = x

\* all sequences over S of length at most n
SeqUpTo(S, n) == UNION {[1..k -> S] : k \in 0..n}

-----------------------------------------------------------------------------
(* detection_rules.py                                                      *)

\* variant: every address beginning "172." is private
_is_private_ip_any_172(ip) ==
    IF ip = "" THEN TRUE
    ELSE IF StartsWith(ip, "127.") \/ StartsWith(ip, "10.") THEN TRUE
    ELSE IF StartsWith(ip, "192.168.") THEN TRUE
    ELSE IF StartsWith(ip, "172.") THEN TRUE
    ELSE IF ip = "::1" \/ StartsWith(ip, "fe80:") \/ ip = "::" THEN TRUE
    ELSE IF ip = "0.0.0.0" THEN TRUE
    ELSE FALSE

\* the classifier of the rule matcher
_is_private_ip(ip) ==
    IF ip = "" THEN TRUE
    ELSE IF StartsWith(ip, "127.") \/ StartsWith(ip, "10.") THEN TRUE
    ELSE IF StartsWith(ip, "192.168.") THEN TRUE
    ELSE IF /\ StartsWith(ip, "172.")
            /\ LET parts == Split(ip, ".")
               IN /\ Len(parts) >= 2
                  /\ LET second == ParseInt(parts[2])
                     IN second # None /\ 16 <= second[1] /\ second[1] <= 31
         THEN TRUE
    ELSE IF ip = "::1" \/ StartsWith(ip, "fe80:") \/ ip = "::" THEN TRUE
    ELSE IF ip = "0.0.0.0" THEN TRUE
    ELSE FALSE

\* One keyed predicate of matches_connection: acc carries the reasons list and
\* whether an earlier predicate already returned (False, []).
Running(reasons) == [returned |-> FALSE, reasons |-> reasons]
Returned == [returned |-> TRUE, reasons |-> <<>>]

\* variant: the state is compared without upper-casing either side
check_state_case_sensitive(match, conn, acc) ==
    IF acc.returned \/ "state" \notin DOMAIN match THEN acc
    ELSE IF Get(conn, "state", "") = match["state"]
         THEN Running(Append(acc.reasons, "state=" \o match["state"]))
         ELSE Returned

check_state(match, conn, acc) ==
    IF acc.returned \/ "state" \notin DOMAIN match THEN acc
    ELSE IF Upper(Get(conn, "state", "")) = Upper(match["state"])
         THEN Running(Append(acc.reasons, "state=" \o match["state"]))
         ELSE Returned

check_state_in(match, conn, acc) ==
    IF acc.returned \/ "state_in" \notin DOMAIN match THEN acc
    ELSE LET states == UpperAll(match["state_in"])
         IN IF InList(Upper(Get(conn, "state", "")), states)
            THEN Running(Append(acc.reasons, "state in " \o ListRepr(states)))
            ELSE Returned

check_remote_port_gte(match, conn, acc) ==
    IF acc.returned \/ "remote_port_gte" \notin DOMAIN match THEN acc
    ELSE IF Get(conn, "remote_port", 0) >= match["remote_port_gte"]
         THEN Running(Append(acc.reasons,
                  "remote_port >= " \o ToString(match["remote_port_gte"])))
         ELSE Returned

check_local_port_gte(match, conn, acc) ==
    IF acc.returned \/ "local_port_gte" \notin DOMAIN match THEN acc
    ELSE IF Get(conn, "local_port", 0) >= match["local_port_gte"]
         THEN Running(Append(acc.reasons,
                  "local_port >= " \o ToString(match["local_port_gte"])))
         ELSE Returned

\* variant: a failing local_port_lte falls through instead of returning
check_local_port_lte_no_return(match, conn, acc) ==
    IF acc.returned \/ "local_port_lte" \notin DOMAIN match THEN acc
    ELSE IF Get(conn, "local_port", 0) <= match["local_port_lte"]
         THEN Running(Append(acc.reasons,
                  "local_port <= " \o ToString(match["local_port_lte"])))
         ELSE acc

check_local_port_lte(match, conn, acc) ==
    IF acc.returned \/ "local_port_lte" \notin DOMAIN match THEN acc
    ELSE IF Get(conn, "local_port", 0) <= match["local_port_lte"]
         THEN Running(Append(acc.reasons,
                  "local_port <= " \o ToString(match["local_port_lte"])))
         ELSE Returned

\* the direction block: the elif branch is `pass` and there is no else branch
check_direction(match, conn, acc) ==
    IF acc.returned THEN acc
    ELSE IF "direction" \in DOMAIN match /\ match["direction"] = "outbound"
         THEN LET remote == Get(conn, "remote_address", "")
              IN IF remote # "" /\ ~_is_private_ip(remote)
                 THEN Running(Append(acc.reasons, "direction=outbound (external IP)"))
                 ELSE IF "exclude_private_ips" \notin DOMAIN match
                      THEN acc
                      ELSE acc
         ELSE acc

\* variant: the final return reports a match whatever the reasons list holds
matches_connection_always(self, conn) ==
    Let(check_state(self.match, conn, Running(<<>>)), LAMBDA r1 :
    Let(check_state_in(self.match, conn, r1), LAMBDA r2 :
    Let(check_remote_port_gte(self.match, conn, r2), LAMBDA r3 :
    Let(check_local_port_gte(self.match, conn, r3), LAMBDA r4 :
    Let(check_local_port_lte(self.match, conn, r4), LAMBDA r5 :
    Let(check_direction(self.match, conn, r5), LAMBDA r6 :
        IF r6.returned THEN [matched |-> FALSE, reasons |-> <<>>]
        ELSE [matched |-> TRUE, reasons |-> r6.reasons]))))))

\* DetectionRule.matches_connection
matches_connection(self, conn) ==
    Let(check_state(self.match, conn, Running(<<>>)), LAMBDA r1 :
    Let(check_state_in(self.match, conn, r1), LAMBDA r2 :
    Let(check_remote_port_gte(self.match, conn, r2), LAMBDA r3 :
    Let(check_local_port_gte(self.match, conn, r3), LAMBDA r4 :
    Let(check_local_port_lte(self.match, conn, r4), LAMBDA r5 :
    Let(check_direction(self.match, conn, r5), LAMBDA r6 :
        IF r6.returned THEN [matched |-> FALSE, reasons |-> <<>>]
        ELSE [matched |-> Len(r6.reasons) > 0, reasons |-> r6.reasons]))))))

-----------------------------------------------------------------------------
(* Inputs of the matcher.                                                  *)

\* class DetectionRule (description and effects are never read by the
\* modelled operations and are left out)
DetectionRule(id, name, severity, tags, match) ==
    [id |-> id, name |-> name, severity |-> severity, tags |-> tags, match |-> match]

MatchStateOpts == {None, Some("LISTEN"), Some("established")}
MatchStateInOpts == {None, Some(<<"listen", "CLOSE_WAIT">>), Some(<<>>)}
MatchRemotePortGteOpts == {None, Some(1024)}
MatchLocalPortGteOpts == {None, Some(49152)}
MatchLocalPortLteOpts == {None, Some(1023)}
MatchDirectionOpts == {None, Some("outbound"), Some("inbound")}
MatchExcludeOpts == {None, Some(TRUE)}

MatchMaps ==
    { Entry("state", s) @@ Entry("state_in", si) @@ Entry("remote_port_gte", rg)
        @@ Entry("local_port_gte", lg) @@ Entry("local_port_lte", ll)
        @@ Entry("direction", d) @@ Entry("exclude_private_ips", x) :
        s \in MatchStateOpts, si \in MatchStateInOpts, rg \in MatchRemotePortGteOpts,
        lg \in MatchLocalPortGteOpts, ll \in MatchLocalPortLteOpts,
        d \in MatchDirectionOpts, x \in MatchExcludeOpts }

ConnStateOpts == {None, Some("LISTEN"), Some("ESTABLISHED"), Some("close_wait")}
ConnRemotePortOpts == {None, Some(0), Some(443), Some(50000)}
ConnLocalPortOpts == {None, Some(80), Some(50000)}
ConnRemoteAddressOpts ==
    {None, Some(""), Some("10.0.0.5"), Some("8.8.8.8"), Some("172.32.0.1"), Some("172.16.0.1")}

ConnDicts ==
    { Entry("state", s) @@ Entry("remote_port", rp) @@ Entry("local_port", lp)
        @@ Entry("remote_address", ra) :
        s \in ConnStateOpts, rp \in ConnRemotePortOpts, lp \in ConnLocalPortOpts,
        ra \in ConnRemoteAddressOpts }

MInit ==
    /\ m_rule \in {DetectionRule("r", "Rule", "high", {"t"}, m) : m \in MatchMaps}
    /\ m_conn \in ConnDicts
    /\ m_out = None

\* one call rule.matches_connection(conn)
Evaluate ==
    /\ m_out = None
    /\ m_out' = Some(matches_connection(m_rule, m_conn))
    /\ UNCHANGED <<m_rule, m_conn>>

-----------------------------------------------------------------------------
(* analyze_connection                                                      *)

\* class DetectionConfig
DetectionConfig(rules, thresholds, tag_definitions, highlight_styles) ==
    [rules |-> rules, thresholds |-> thresholds,
     tag_definitions |-> tag_definitions, highlight_styles |-> highlight_styles]

\* DetectionConfig() with the dataclass defaults
EmptyConfig == DetectionConfig(<<>>, <<>>, <<>>, <<>>)

severity_order ==
    [normal |-> 0, low |-> 1, medium |-> 2, high |-> 3, critical |-> 4]

\* variant: a severity outside the table ranks above critical
SeverityOrdinal_unknown_on_top(s) == Get(severity_order, s, 5)

\* severity_order.get(s, 0)
SeverityOrdinal(s) == Get(severity_order, s, 0)

\* variant: every matching rule overwrites max_severity
analyze_step_last_wins(acc, rule, conn) ==
    Let(matches_connection(rule, conn), LAMBDA m :
       IF m.matched
       THEN [matched_rules |-> Append(acc.matched_rules,
                                  [rule_id |-> rule.id, rule_name |-> rule.name,
                                   severity |-> rule.severity, reasons |-> m.reasons]),
             max_severity  |-> rule.severity,
             all_tags      |-> acc.all_tags \cup rule.tags,
             all_reasons   |-> acc.all_reasons \o m.reasons]
       ELSE acc)

\* variant: a rule whose id is already recorded adds no second entry
analyze_step_unique_ids(acc, rule, conn) ==
    Let(matches_connection(rule, conn), LAMBDA m :
       IF m.matched /\ ~\E i \in 1..Len(acc.matched_rules) :
                            acc.matched_rules[i].rule_id = rule.id
       THEN [matched_rules |-> Append(acc.matched_rules,
                                  [rule_id |-> rule.id, rule_name |-> rule.name,
                                   severity |-> rule.severity, reasons |-> m.reasons]),
             max_severity  |-> IF SeverityOrdinal(rule.severity) > SeverityOrdinal(acc.max_severity)
                               THEN rule.severity ELSE acc.max_severity,
             all_tags      |-> acc.all_tags \cup rule.tags,
             all_reasons   |-> acc.all_reasons \o m.reasons]
       ELSE acc)

\* variant: the loop stops at the first matching rule
analyze_step_first_only(acc, rule, conn) ==
    Let(matches_connection(rule, conn), LAMBDA m :
       IF m.matched /\ acc.matched_rules = <<>>
       THEN [matched_rules |-> <<[rule_id |-> rule.id, rule_name |-> rule.name,
                                  severity |-> rule.severity, reasons |-> m.reasons]>>,
             max_severity  |-> IF SeverityOrdinal(rule.severity) > SeverityOrdinal(acc.max_severity)
                               THEN rule.severity ELSE acc.max_severity,
             all_tags      |-> rule.tags,
             all_reasons   |-> m.reasons]
       ELSE acc)

\* the body of the loop over config.rules for one rule
analyze_step(acc, rule, conn) ==
    Let(matches_connection(rule, conn), LAMBDA m :
       IF m.matched
       THEN [matched_rules |-> Append(acc.matched_rules,
                                  [rule_id |-> rule.id, rule_name |-> rule.name,
                                   severity |-> rule.severity, reasons |-> m.reasons]),
             max_severity  |-> IF SeverityOrdinal(rule.severity) > SeverityOrdinal(acc.max_severity)
                               THEN rule.severity ELSE acc.max_severity,
             all_tags      |-> acc.all_tags \cup rule.tags,
             all_reasons   |-> acc.all_reasons \o m.reasons]
       ELSE acc)

RECURSIVE analyze_loop(_, _, _)
analyze_loop(acc, rules, conn) ==
    IF rules = <<>> THEN acc
    ELSE Let(analyze_step(acc, Head(rules), conn), LAMBDA next :
             analyze_loop(next, Tail(rules), conn))

\* variant: is_suspicious is len(matched_rules) >= 0
analyze_connection_always_suspicious(conn, config) ==
    Let(analyze_loop([matched_rules |-> <<>>, max_severity |-> "normal",
                      all_tags |-> {}, all_reasons |-> <<>>],
                     config.rules, conn), LAMBDA fin :
        [connection    |-> conn,
         is_suspicious |-> Len(fin.matched_rules) >= 0,
         severity      |-> fin.max_severity,
         matched_rules |-> fin.matched_rules,
         tags          |-> fin.all_tags,
         match_reasons |-> {fin.all_reasons[i] : i \in 1..Len(fin.all_reasons)}])

\* analyze_connection; list(set(..)) results are kept as the sets they hold
analyze_connection(conn, config) ==
    Let(analyze_loop([matched_rules |-> <<>>, max_severity |-> "normal",
                      all_tags |-> {}, all_reasons |-> <<>>],
                     config.rules, conn), LAMBDA fin :
        [connection    |-> conn,
         is_suspicious |-> Len(fin.matched_rules) > 0,
         severity      |-> fin.max_severity,
         matched_rules |-> fin.matched_rules,
         tags          |-> fin.all_tags,
         match_reasons |-> {fin.all_reasons[i] : i \in 1..Len(fin.all_reasons)}])

-----------------------------------------------------------------------------
(* Inputs of the analyzer.                                                 *)

RuleListener ==
    DetectionRule("unexpected_listener", "Unexpected Listener", "high",
                  {"listener", "backdoor"},
                  [state |-> "LISTEN", local_port_gte |-> 49152])
RuleBeacon ==
    DetectionRule("high_port_beaconing", "High Port Beaconing", "critical",
                  {"beacon", "c2"},
                  [state |-> "ESTABLISHED", remote_port_gte |-> 49152,
                   direction |-> "outbound"])
RuleCloseWait ==
    DetectionRule("excessive_close_wait", "Excessive CLOSE_WAIT", "low",
                  {"resource_leak"}, [state |-> "close_wait"])
RuleActive ==
    DetectionRule("active_socket", "Active Socket", "medium",
                  {"listener"}, [state_in |-> <<"ESTABLISHED", "LISTEN">>])
\* a severity string outside the table of severity_order
RuleInfo ==
    DetectionRule("remote_high_port", "Remote High Port", "info",
                  {"performance"}, [remote_port_gte |-> 1024])
\* another severity string outside the table
RuleDebug ==
    DetectionRule("any_remote_port", "Any Remote Port", "debug",
                  {"noise"}, [remote_port_gte |-> 80])
\* a second rule carrying the id of RuleListener
RuleListenerTwin ==
    DetectionRule("unexpected_listener", "Listener (duplicate id)", "medium",
                  {"listener"}, [state |-> "listen"])
RuleNoMatchKeys ==
    DetectionRule("no_keys", "No Keys", "critical", {"anomaly"}, <<>>)

RulePool == {RuleListener, RuleBeacon, RuleCloseWait, RuleActive, RuleInfo, RuleDebug,
             RuleListenerTwin, RuleNoMatchKeys}

\* a connection dict as list_connections builds it
ConnDict(pid, process_name, local_address, local_port, remote_address, remote_port, state) ==
    [pid |-> pid, process_name |-> process_name,
     local_address |-> local_address, local_port |-> local_port,
     remote_address |-> remote_address, remote_port |-> remote_port,
     state |-> state, proto |-> "tcp"]

AnalyzerConns ==
    { ConnDict(100, "sshd", "0.0.0.0", 50000, "", 0, "LISTEN"),
      ConnDict(100, "sshd", "0.0.0.0", 22, "", 0, "LISTEN"),
      ConnDict(200, "curl", "10.0.0.2", 40000, "8.8.8.8", 50000, "ESTABLISHED"),
      ConnDict(200, "curl", "10.0.0.2", 40000, "10.0.0.5", 50000, "ESTABLISHED"),
      ConnDict(0, "unknown", "10.0.0.2", 40001, "8.8.8.8", 443, "CLOSE_WAIT"),
      ConnDict(300, "nginx", "10.0.0.2", 80, "203.0.113.5", 1024, "TIME_WAIT"),
      ConnDict(300, "nginx", "10.0.0.2", 80, "203.0.113.5", 80, "SYN_SENT") }

AInit ==
    /\ a_conn \in AnalyzerConns
    /\ a_config \in {DetectionConfig(rs, <<>>, <<>>, <<>>) : rs \in SeqUpTo(RulePool, MaxRules)}
    /\ a_out = None

\* one call analyze_connection(conn, config)
Analyze ==
    /\ a_out = None
    /\ a_out' = Some(analyze_connection(a_conn, a_config))
    /\ UNCHANGED <<a_conn, a_config>>

-----------------------------------------------------------------------------
(* load_detection_rules and get_detection_config                           *)

\* The rule document: exists says whether one of the searched paths exists,
\* data is what yaml.safe_load returns for it, None when it raises.
Document(exists, data) == [exists |-> exists, data |-> data]

\* DetectionRule(...) built from one entry of data['rules'] with its defaults;
\* tags are kept as the set of the list's members
rule_from_data(rule_data) ==
    DetectionRule(Get(rule_data, "id", "unknown"),
                  Get(rule_data, "name", "Unknown Rule"),
                  Get(rule_data, "severity", "low"),
                  Get(rule_data, "tags", {}),
                  Get(rule_data, "match", <<>>))

\* load_detection_rules(); raised is the exception leaving the function
load_detection_rules(doc) ==
    IF ~doc.exists THEN [raised |-> "", config |-> EmptyConfig]
    ELSE IF doc.data = None THEN [raised |-> "YAMLError", config |-> EmptyConfig]
    ELSE LET data == doc.data[1]
         IN [raised |-> "",
             config |-> DetectionConfig(
                 IF "rules" \in DOMAIN data
                 THEN [i \in 1..Len(data["rules"]) |-> rule_from_data(data["rules"][i])]
                 ELSE <<>>,
                 IF "defaults" \in DOMAIN data /\ "thresholds" \in DOMAIN data["defaults"]
                 THEN data["defaults"]["thresholds"] ELSE <<>>,
                 Get(data, "tag_definitions", <<>>),
                 Get(data, "highlight_styles", <<>>))]

\* variant: the global is not consulted, every call loads the document
get_detection_config_reload(cache, doc) ==
    LET loaded == load_detection_rules(doc)
    IN IF loaded.raised # ""
       THEN [raised |-> loaded.raised, cache |-> cache, config |-> EmptyConfig, loads |-> 1]
       ELSE [raised |-> "", cache |-> Some(loaded.config), config |-> loaded.config,
             loads |-> 1]

\* variant: a failed load leaves an empty store in the global
get_detection_config_keep_failure(cache, doc) ==
    IF cache = None
    THEN LET loaded == load_detection_rules(doc)
         IN IF loaded.raised # ""
            THEN [raised |-> loaded.raised, cache |-> Some(EmptyConfig),
                  config |-> EmptyConfig, loads |-> 1]
            ELSE [raised |-> "", cache |-> Some(loaded.config), config |-> loaded.config,
                  loads |-> 1]
    ELSE [raised |-> "", cache |-> cache, config |-> cache[1], loads |-> 0]

\* get_detection_config(): cache is the value of the global afterwards, loads
\* the number of calls of load_detection_rules it made
get_detection_config(cache, doc) ==
    IF cache = None
    THEN LET loaded == load_detection_rules(doc)
         IN IF loaded.raised # ""
            THEN [raised |-> loaded.raised, cache |-> cache, config |-> EmptyConfig,
                  loads |-> 1]
            ELSE [raised |-> "", cache |-> Some(loaded.config), config |-> loaded.config,
                  loads |-> 1]
    ELSE [raised |-> "", cache |-> cache, config |-> cache[1], loads |-> 0]

-----------------------------------------------------------------------------
(* list_connections                                                        *)

\* one entry of psutil.net_connections(kind='tcp')
SConn(pid, status, laddr, raddr) ==
    [pid |-> pid, status |-> status, laddr |-> laddr, raddr |-> raddr]

Addr(ip, port) == [ip |-> ip, port |-> port]

\* psutil.net_connections(): denied stands for psutil.AccessDenied
NetConnections(denied, conns) == [denied |-> denied, conns |-> conns]

\* psutil.Process(pid).name(), "unknown" on NoSuchProcess / AccessDenied
ProcessName(pid) ==
    CASE pid = 100 -> "sshd" [] pid = 200 -> "curl" [] OTHER -> "unknown"

\* truthiness of an Optional[int] / Optional[str] argument
TruthyInt(opt) == opt # None /\ opt[1] # 0
TruthyStr(opt) == opt # None /\ opt[1] # ""

RECURSIVE list_loop(_, _, _)
list_loop(conns, state_filter, pid_filter) ==
    IF conns = <<>> THEN <<>>
    ELSE LET conn == Head(conns)
             rest == list_loop(Tail(conns), state_filter, pid_filter)
         IN IF conn.pid = None THEN rest
            ELSE IF TruthyInt(pid_filter) /\ conn.pid[1] # pid_filter[1] THEN rest
            ELSE IF TruthyStr(state_filter) /\ Upper(conn.status) # Upper(state_filter[1])
                 THEN rest
            ELSE <<ConnDict(conn.pid[1], ProcessName(conn.pid[1]),
                            IF conn.laddr # None THEN conn.laddr[1].ip ELSE "",
                            IF conn.laddr # None THEN conn.laddr[1].port ELSE 0,
                            IF conn.raddr # None THEN conn.raddr[1].ip ELSE "",
                            IF conn.raddr # None THEN conn.raddr[1].port ELSE 0,
                            conn.status)>> \o rest

list_connections(net, state_filter, pid_filter) ==
    IF net.denied THEN <<>> ELSE list_loop(net.conns, state_filter, pid_filter)

\* f"{address}:{port}"
Endpoint(address, port) == address \o ":" \o ToString(port)

-----------------------------------------------------------------------------
(* server.py's own _is_private_ip, the classifier get_suspicious_connections *)
(* calls; the name _is_private_ip stands for the one of detection_rules.py. *)

\* raised is the exception leaving the function: int(parts[1]) is not guarded
server_is_private_ip(ip) ==
    IF StartsWith(ip, "127.") \/ StartsWith(ip, "10.")
    THEN [raised |-> "", value |-> TRUE]
    ELSE IF StartsWith(ip, "192.168.") THEN [raised |-> "", value |-> TRUE]
    ELSE IF StartsWith(ip, "172.") /\ Len(Split(ip, ".")) >= 2
            /\ ParseInt(Split(ip, ".")[2]) = None
         THEN [raised |-> "ValueError", value |-> FALSE]
    ELSE IF StartsWith(ip, "172.") /\ Len(Split(ip, ".")) >= 2
            /\ 16 <= ParseInt(Split(ip, ".")[2])[1]
            /\ ParseInt(Split(ip, ".")[2])[1] <= 31
         THEN [raised |-> "", value |-> TRUE]
    ELSE IF ip = "::1" \/ StartsWith(ip, "fe80:") THEN [raised |-> "", value |-> TRUE]
    ELSE [raised |-> "", value |-> FALSE]

-----------------------------------------------------------------------------
(* analyze_connections                                                     *)

EmptyFindings ==
    [critical |-> <<>>, high |-> <<>>, medium |-> <<>>, low |-> <<>>, normal |-> <<>>]

\* the finding appended for a suspicious connection
Finding(conn, analysis) ==
    [connection |-> [pid |-> conn.pid, process_name |-> conn.process_name,
                     remote |-> Endpoint(conn.remote_address, conn.remote_port),
                     local |-> Endpoint(conn.local_address, conn.local_port),
                     state |-> conn.state],
     matched_rules |-> [i \in 1..Len(analysis.matched_rules) |->
                            analysis.matched_rules[i].rule_name],
     tags |-> analysis.tags]

\* the loop over connections; raised = "KeyError" when findings[severity]
\* names no bucket
RECURSIVE bucket_loop(_, _, _)
bucket_loop(acc, conns, config) ==
    IF conns = <<>> \/ acc.raised # "" THEN acc
    ELSE Let(Head(conns), LAMBDA conn :
         Let(analyze_connection(conn, config), LAMBDA analysis :
         Let(analysis.severity, LAMBDA severity :
             IF analysis.is_suspicious
             THEN IF severity \notin DOMAIN acc.findings
                  THEN [acc EXCEPT !.raised = "KeyError"]
                  ELSE Let([acc EXCEPT !.findings[severity] =
                                           Append(@, Finding(conn, analysis)),
                                       !.all_tags = @ \cup analysis.tags],
                           LAMBDA next : bucket_loop(next, Tail(conns), config))
             ELSE Let([acc EXCEPT !.findings["normal"] = Append(@, conn)],
                      LAMBDA next : bucket_loop(next, Tail(conns), config)))))

\* variant: suspicious_count sums the critical, high and medium buckets only
Report_without_low(connections, findings, all_tags, config) ==
    [summary |->
        [total_connections |-> Len(connections),
         suspicious_count |-> Len(findings["critical"]) + Len(findings["high"])
                              + Len(findings["medium"]),
         by_severity |-> [critical |-> Len(findings["critical"]),
                          high |-> Len(findings["high"]),
                          medium |-> Len(findings["medium"]),
                          low |-> Len(findings["low"])],
         detected_tags |-> all_tags],
     findings |-> [critical |-> findings["critical"], high |-> findings["high"],
                   medium |-> findings["medium"], low |-> findings["low"]],
     rules_loaded |-> Len(config.rules)]

\* the returned report
Report(connections, findings, all_tags, config) ==
    [summary |->
        [total_connections |-> Len(connections),
         suspicious_count |-> Len(findings["critical"]) + Len(findings["high"])
                              + Len(findings["medium"]) + Len(findings["low"]),
         by_severity |-> [critical |-> Len(findings["critical"]),
                          high |-> Len(findings["high"]),
                          medium |-> Len(findings["medium"]),
                          low |-> Len(findings["low"])],
         detected_tags |-> all_tags],
     findings |-> [critical |-> findings["critical"], high |-> findings["high"],
                   medium |-> findings["medium"], low |-> findings["low"]],
     rules_loaded |-> Len(config.rules)]

NoReport == Report(<<>>, EmptyFindings, {}, EmptyConfig)

\* the outcome of one tool call, with the locals the properties speak of
Outcome(op, raised, loads, connections, config, findings, report) ==
    [op |-> op, raised |-> raised, loads |-> loads, connections |-> connections,
     config |-> config, findings |-> findings, report |-> report]

\* the tool analyze_connections() run against the inventory net, from the
\* cache and the document it finds: the cache it leaves and its outcome
analyze_connections(cache, doc, net) ==
    Let(get_detection_config(cache, doc), LAMBDA got :
        IF got.raised # ""
        THEN [cache |-> got.cache,
              outcome |-> Outcome("analyze_connections", got.raised, got.loads, <<>>,
                                  EmptyConfig, EmptyFindings, NoReport)]
        ELSE Let(list_connections(net, None, None), LAMBDA connections :
             Let(bucket_loop([raised |-> "", findings |-> EmptyFindings, all_tags |-> {}],
                             connections, got.config), LAMBDA fin :
                 [cache |-> got.cache,
                  outcome |-> Outcome("analyze_connections", fin.raised, got.loads,
                                      connections, got.config, fin.findings,
                                      IF fin.raised # "" THEN NoReport
                                      ELSE Report(connections, fin.findings,
                                                  fin.all_tags, got.config))])))

-----------------------------------------------------------------------------
(* explain_connection                                                      *)

\* the loop of lines 331-338: the first connection not skipped, None if none
RECURSIVE find_target(_, _, _)
find_target(connections, remote_address, remote_port) ==
    IF connections = <<>> THEN None
    ELSE IF TruthyStr(remote_address)
            /\ Head(connections).remote_address # remote_address[1]
         THEN find_target(Tail(connections), remote_address, remote_port)
    ELSE IF TruthyInt(remote_port) /\ Head(connections).remote_port # remote_port[1]
         THEN find_target(Tail(connections), remote_address, remote_port)
    ELSE Some(Head(connections))

\* the dict returned for a connection found; the Korean texts are left out
Explanation(target_conn, analysis) ==
    [found |-> TRUE,
     connection |-> target_conn,
     is_suspicious |-> analysis.is_suspicious,
     overall_severity |-> analysis.severity,
     tags |-> analysis.tags,
     explanations |-> [i \in 1..Len(analysis.matched_rules) |->
                          [rule |-> analysis.matched_rules[i].rule_name,
                           severity |-> analysis.matched_rules[i].severity,
                           match_reasons |-> analysis.matched_rules[i].reasons]]]

NotFound == [found |-> FALSE]

\* the outcome of one call, with the locals
ExplainOutcome(raised, loads, connections, config, report) ==
    [op |-> "explain_connection", raised |-> raised, loads |-> loads,
     connections |-> connections, config |-> config, report |-> report]

\* the tool explain_connection(pid, remote_address, remote_port) run against
\* the inventory net: the cache it leaves and its outcome
explain_connection(cache, doc, net, pid, remote_address, remote_port) ==
    Let(get_detection_config(cache, doc), LAMBDA got :
        IF got.raised # ""
        THEN [cache |-> got.cache,
              outcome |-> ExplainOutcome(got.raised, got.loads, <<>>, EmptyConfig, NotFound)]
        ELSE Let(list_connections(net, None, pid), LAMBDA connections :
             Let(find_target(connections, remote_address, remote_port), LAMBDA target_conn :
                 [cache |-> got.cache,
                  outcome |-> ExplainOutcome("", got.loads, connections, got.config,
                                  IF target_conn = None THEN NotFound
                                  ELSE Explanation(target_conn[1],
                                           analyze_connection(target_conn[1],
                                                              got.config)))])))

-----------------------------------------------------------------------------
(* analyze_spec_consistency                                                *)

\* network_map.yaml is a Document: exists says whether one of the two searched
\* paths exists, data is what yaml.safe_load returns, None when it raises.
\* network_map_states = set(network_map.get("connection_states", {}).keys())
network_map_states(network_map) ==
    IF ~network_map.exists THEN {}
    ELSE DOMAIN Get(network_map.data[1], "connection_states", <<>>)

\* one entry of findings; detail is the value the message interpolates
ConsistencyFinding(type, severity, rule_id, detail) ==
    [type |-> type, severity |-> severity, rule_id |-> rule_id, detail |-> detail]

\* variant: the test that the vocabulary is not empty is left out
state_findings_unguarded(rule, states) ==
    IF "state" \in DOMAIN rule.match /\ Upper(rule.match["state"]) \notin states
    THEN <<ConsistencyFinding("invalid_state_reference", "warning", rule.id,
                              Upper(rule.match["state"]))>>
    ELSE <<>>

\* the finding for match["state"], lines 918-926
state_findings(rule, states) ==
    IF /\ "state" \in DOMAIN rule.match
       /\ Upper(rule.match["state"]) \notin states
       /\ states # {}
    THEN <<ConsistencyFinding("invalid_state_reference", "warning", rule.id,
                              Upper(rule.match["state"]))>>
    ELSE <<>>

\* the findings for match["state_in"], lines 928-936
RECURSIVE state_in_loop(_, _, _)
state_in_loop(rule, listed, states) ==
    IF listed = <<>> THEN <<>>
    ELSE (IF Upper(Head(listed)) \notin states /\ states # {}
          THEN <<ConsistencyFinding("invalid_state_reference", "warning", rule.id,
                                    Head(listed))>>
          ELSE <<>>)
         \o state_in_loop(rule, Tail(listed), states)

state_in_findings(rule, states) ==
    IF "state_in" \in DOMAIN rule.match
    THEN state_in_loop(rule, rule.match["state_in"], states)
    ELSE <<>>

\* the loop of lines 916-936
RECURSIVE state_reference_loop(_, _)
state_reference_loop(rules, states) ==
    IF rules = <<>> THEN <<>>
    ELSE state_findings(Head(rules), states)
         \o state_in_findings(Head(rules), states)
         \o state_reference_loop(Tail(rules), states)

\* variant: info is accepted as a severity
valid_severities_with_info == {"low", "medium", "high", "critical", "info"}

valid_severities == {"low", "medium", "high", "critical"}

\* the loop of lines 940-947
RECURSIVE severity_loop(_)
severity_loop(rules) ==
    IF rules = <<>> THEN <<>>
    ELSE (IF Head(rules).severity \notin valid_severities
          THEN <<ConsistencyFinding("invalid_severity", "error", Head(rules).id,
                                    Head(rules).severity)>>
          ELSE <<>>)
         \o severity_loop(Tail(rules))

\* sum(1 for f in findings if f["severity"] == severity)
CountSeverity(findings, severity) ==
    Cardinality({i \in 1..Len(findings) : findings[i].severity = severity})

\* the returned report
ConsistencyReport(findings, config, network_map, states) ==
    [summary |->
        [total_findings |-> Len(findings),
         errors |-> CountSeverity(findings, "error"),
         warnings |-> CountSeverity(findings, "warning"),
         detection_rules_count |->
             Cardinality({config.rules[i].id : i \in 1..Len(config.rules)}),
         connection_states_count |-> Cardinality(states),
         unique_tags_count |->
             Cardinality(UNION {config.rules[i].tags : i \in 1..Len(config.rules)})],
     findings |-> findings,
     specs_analyzed |-> <<"suspicious_detection.yaml",
                          IF network_map.exists THEN "network_map.yaml"
                          ELSE "(not found)">>]

\* the outcome of one call, with the file read and the locals
ConsistencyOutcome(raised, loads, network_map, config, states, findings, report) ==
    [op |-> "analyze_spec_consistency", raised |-> raised, loads |-> loads,
     network_map |-> network_map, config |-> config, network_map_states |-> states,
     findings |-> findings, report |-> report]

\* the tool analyze_spec_consistency() run with the file network_map, from the
\* cache and the rule document it finds: the cache it leaves and its outcome
analyze_spec_consistency(cache, doc, network_map) ==
    Let(get_detection_config(cache, doc), LAMBDA got :
        IF got.raised # ""
        THEN [cache |-> got.cache,
              outcome |-> ConsistencyOutcome(got.raised, got.loads, network_map,
                                             EmptyConfig, {}, <<>>, <<>>)]
        ELSE IF network_map.exists /\ network_map.data = None
        THEN [cache |-> got.cache,
              outcome |-> ConsistencyOutcome("YAMLError", got.loads, network_map,
                                             got.config, {}, <<>>, <<>>)]
        ELSE Let(network_map_states(network_map), LAMBDA states :
             Let(state_reference_loop(got.config.rules, states)
                 \o severity_loop(got.config.rules), LAMBDA findings :
                 [cache |-> got.cache,
                  outcome |-> ConsistencyOutcome("", got.loads, network_map, got.config,
                                  states, findings,
                                  ConsistencyReport(findings, got.config, network_map,
                                                    states))])))

-----------------------------------------------------------------------------
(* Inputs of the server.                                                   *)

\* entries of data['rules'] as the YAML document holds them
DataBeacon ==
    [id |-> "high_port_beaconing", name |-> "High Port Beaconing",
     severity |-> "critical", tags |-> {"beacon", "c2"},
     match |-> [state |-> "ESTABLISHED", remote_port_gte |-> 49152,
                direction |-> "outbound"]]
\* severity outside the table; id, name and tags left to their defaults
DataInfo ==
    [severity |-> "info", match |-> [state_in |-> <<"listen", "established">>]]
\* severity left to its default
DataListener ==
    [id |-> "unexpected_listener", name |-> "Unexpected Listener",
     tags |-> {"listener", "backdoor"},
     match |-> [state |-> "LISTEN", local_port_gte |-> 49152]]

DocumentData ==
    { [rules |-> <<>>],
      [rules |-> <<DataBeacon>>],
      [rules |-> <<DataInfo>>],
      [rules |-> <<DataListener, DataBeacon>>],
      [rules |-> <<DataBeacon, DataInfo>>],
      [defaults |-> [thresholds |-> [high_port |-> 49152]],
       tag_definitions |-> [c2 |-> "Command and control"],
       highlight_styles |-> [red_glow |-> "red"]] }

Documents ==
    {Document(FALSE, None), Document(TRUE, None)}
    \cup {Document(TRUE, Some(d)) : d \in DocumentData}

ConnBeacon ==
    SConn(Some(200), "ESTABLISHED", Some(Addr("10.0.0.2", 40000)), Some(Addr("8.8.8.8", 50000)))
ConnListen ==
    SConn(Some(100), "LISTEN", Some(Addr("0.0.0.0", 50000)), None)
ConnTimeWait ==
    SConn(Some(0), "TIME_WAIT", Some(Addr("10.0.0.2", 40001)), Some(Addr("10.0.0.5", 443)))
ConnKernel ==
    SConn(None, "CLOSE_WAIT", None, Some(Addr("8.8.8.8", 443)))
ConnAnyRemote ==
    SConn(Some(300), "SYN_SENT", Some(Addr("10.0.0.2", 40002)), Some(Addr("0.0.0.0", 0)))

NetPool == {ConnBeacon, ConnListen, ConnTimeWait}

Inventories ==
    {NetConnections(TRUE, <<>>)}
    \cup {NetConnections(FALSE, cs) : cs \in SeqUpTo(NetPool, MaxInventory)}

SInit ==
    /\ document \in Documents
    /\ _detection_config = None
    /\ result = None

\* the environment replaces, corrupts or removes the rule document
WriteDocument ==
    /\ \E d \in Documents : d # document /\ document' = d
    /\ UNCHANGED <<_detection_config, result>>

\* network_map.yaml as the tool may find it: absent, unreadable, without the
\* connection_states key, with no state, with the states the rules name, with
\* one of them missing, and with a state spelled in lower case
NetworkMaps ==
    {Document(FALSE, None), Document(TRUE, None),
     Document(TRUE, Some([version |-> "1"])),
     Document(TRUE, Some([connection_states |-> <<>>])),
     Document(TRUE, Some([connection_states |->
                             [ESTABLISHED |-> "active", LISTEN |-> "listening"]])),
     Document(TRUE, Some([connection_states |-> [ESTABLISHED |-> "active"]])),
     Document(TRUE, Some([connection_states |->
                             [ESTABLISHED |-> "active", listen |-> "listening"]]))}

\* a client calls the tool analyze_spec_consistency
AnalyzeSpecConsistency ==
    \E network_map \in NetworkMaps :
    \E call \in {analyze_spec_consistency(_detection_config, document, network_map)} :
        /\ _detection_config' = call.cache
        /\ result' = Some(call.outcome)
        /\ UNCHANGED document

\* a client calls the tool analyze_connections
AnalyzeConnections ==
    \E net \in Inventories :
    \E call \in {analyze_connections(_detection_config, document, net)} :
        /\ _detection_config' = call.cache
        /\ result' = Some(call.outcome)
        /\ UNCHANGED document

-----------------------------------------------------------------------------
(* Inputs of the explainer.                                                *)

ExplainDocuments ==
    {Document(TRUE, None), Document(TRUE, Some([rules |-> <<DataBeacon, DataInfo>>]))}

ExplainInventories ==
    {NetConnections(TRUE, <<>>)}
    \cup {NetConnections(FALSE, cs) : cs \in SeqUpTo(NetPool \cup {ConnKernel}, MaxConns)}

PidSelectors == {None, Some(0), Some(200)}
RemoteAddressSelectors == {None, Some(""), Some("8.8.8.8")}
RemotePortSelectors == {None, Some(0), Some(50000)}

EInit ==
    /\ document \in ExplainDocuments
    /\ _detection_config = None
    /\ result = None
    /\ e_net \in ExplainInventories
    /\ e_pid \in PidSelectors
    /\ e_remote_address \in RemoteAddressSelectors
    /\ e_remote_port \in RemotePortSelectors

\* a client calls the tool explain_connection
ExplainConnection ==
    \E call \in {explain_connection(_detection_config, document, e_net,
                                    e_pid, e_remote_address, e_remote_port)} :
        /\ _detection_config' = call.cache
        /\ result' = Some(call.outcome)
        /\ UNCHANGED <<document, e_vars>>

-----------------------------------------------------------------------------
(* compare_baseline                                                        *)

\* set(xs or []) for an Optional list
SetOf(opt) == IF opt = None THEN {} ELSE {opt[1][i] : i \in 1..Len(opt[1])}

\* variant: the test is `is not None`
TruthyList_not_none(opt) == opt # None

\* truthiness of an Optional list
TruthyList(opt) == opt # None /\ Len(opt[1]) > 0

\* variant: both the endpoint and the pid have to be new
RECURSIVE new_connections_loop_and(_, _, _)
new_connections_loop_and(connections, new_remotes, new_pids) ==
    IF connections = <<>> THEN <<>>
    ELSE LET conn == Head(connections)
             remote == Endpoint(conn.remote_address, conn.remote_port)
             rest == new_connections_loop_and(Tail(connections), new_remotes, new_pids)
         IN IF remote \in new_remotes /\ conn.pid \in new_pids
            THEN <<conn>> \o rest ELSE rest

\* the loop building new_connections
RECURSIVE new_connections_loop(_, _, _)
new_connections_loop(connections, new_remotes, new_pids) ==
    IF connections = <<>> THEN <<>>
    ELSE LET conn == Head(connections)
             remote == Endpoint(conn.remote_address, conn.remote_port)
             rest == new_connections_loop(Tail(connections), new_remotes, new_pids)
         IN IF remote \in new_remotes \/ conn.pid \in new_pids
            THEN <<conn>> \o rest ELSE rest

\* compare_baseline(baseline_pids, baseline_remotes) run against the inventory
\* net; the locals are returned next to the report
compare_baseline(net, baseline_pids, baseline_remotes) ==
    Let(list_connections(net, None, None), LAMBDA connections :
    Let({connections[i].pid : i \in {j \in 1..Len(connections) :
                                        connections[j].pid # 0}}, LAMBDA current_pids :
    Let({Endpoint(connections[i].remote_address, connections[i].remote_port) :
            i \in {j \in 1..Len(connections) :
                      /\ connections[j].remote_address # ""
                      /\ connections[j].remote_address # "0.0.0.0"}}, LAMBDA current_remotes :
    Let(SetOf(baseline_pids), LAMBDA baseline_pids_set :
    Let(SetOf(baseline_remotes), LAMBDA baseline_remotes_set :
    Let(IF TruthyList(baseline_pids)
        THEN current_pids \ baseline_pids_set ELSE {}, LAMBDA new_pids :
    Let(IF TruthyList(baseline_remotes)
        THEN current_remotes \ baseline_remotes_set ELSE {}, LAMBDA new_remotes :
    Let(new_connections_loop(connections, new_remotes, new_pids), LAMBDA new_connections :
        [connections |-> connections,
         current_pids |-> current_pids,
         current_remotes |-> current_remotes,
         report |-> [summary |-> [total_current_connections |-> Len(connections),
                                  new_pids_count |-> Cardinality(new_pids),
                                  new_remotes_count |-> Cardinality(new_remotes)],
                     new_pids |-> new_pids,
                     new_remote_endpoints |-> new_remotes,
                     new_connections |-> new_connections]]))))))))

-----------------------------------------------------------------------------
(* Inputs of the baseline differ.                                          *)

BaselinePidPool == {100, 200}
BaselineRemotePool == {"8.8.8.8:50000", "10.0.0.5:443"}

BaselinePids == {None} \cup {Some(xs) : xs \in SeqUpTo(BaselinePidPool, MaxBaseline)}
BaselineRemotes == {None} \cup {Some(xs) : xs \in SeqUpTo(BaselineRemotePool, MaxBaseline)}

BaselineInventories ==
    {NetConnections(TRUE, <<>>)}
    \cup {NetConnections(FALSE, cs) :
             cs \in SeqUpTo(NetPool \cup {ConnKernel, ConnAnyRemote}, MaxConns)}

BInit ==
    /\ b_net \in BaselineInventories
    /\ b_pids \in BaselinePids
    /\ b_remotes \in BaselineRemotes
    /\ b_out = None

\* one call compare_baseline(baseline_pids, baseline_remotes)
CompareBaseline ==
    /\ b_out = None
    /\ b_out' = Some(compare_baseline(b_net, b_pids, b_remotes))
    /\ UNCHANGED <<b_net, b_pids, b_remotes>>

-----------------------------------------------------------------------------
(* suggest_new_rule: the tags, the severity and the match criteria of the  *)
(* suggested rule.  The module is ASCII, so a Hangul keyword is written as *)
(* its romanisation between braces; str.lower leaves both unchanged.       *)

keywords ==
    << [tag |-> "beacon",
        words |-> <<"beacon", "{bikon}", "{jugijeok}", "periodic", "interval">>],
       [tag |-> "exfiltration",
        words |-> <<"exfil", "{yuchul}", "{daeyongryang}", "large", "transfer">>],
       [tag |-> "backdoor",
        words |-> <<"backdoor", "{baekdoeo}", "listener", "{riseuneo}", "bind">>],
       [tag |-> "scanning",
        words |-> <<"scan", "{seukaen}", "probe", "{tamsaek}">>],
       [tag |-> "c2",
        words |-> <<"c2", "command", "control", "{myeongryeong}">>],
       [tag |-> "anomaly",
        words |-> <<"unusual", "{isang}", "unexpected", "{bijeongsang}">>] >>

\* variant: the description is searched as written
pattern_lower_as_written(pattern_description) == pattern_description

\* pattern_lower = pattern_description.lower()
pattern_lower(pattern_description) == Lower(pattern_description)

\* the loop over keywords.items() with the default of line 807
detected_tags(pattern_description) ==
    Let(pattern_lower(pattern_description), LAMBDA lowered :
    Let(SelectSeq(keywords,
                  LAMBDA k : \E i \in 1..Len(k.words) : Contains(lowered, k.words[i])),
        LAMBDA hits :
            IF Len(hits) = 0 THEN <<"anomaly">>
            ELSE [i \in 1..Len(hits) |-> hits[i].tag]))

\* the severity chosen from the tags
suggested_severity(tags) ==
    IF InList("c2", tags) \/ InList("exfiltration", tags) THEN "high"
    ELSE IF InList("backdoor", tags) THEN "high"
    ELSE IF InList("scanning", tags) THEN "medium"
    ELSE "medium"

\* states = set(c.get("state", "").upper() for c in ... if c.get("state"))
observed_states(observed_connections) ==
    IF ~TruthyList(observed_connections) THEN {}
    ELSE LET cs == observed_connections[1]
         IN {Upper(cs[i]["state"]) :
                i \in {j \in 1..Len(cs) : Get(cs[j], "state", "") # ""}}

\* the values of remote_ports = [c.get("remote_port", 0) for c ... if c.get("remote_port")]
observed_remote_ports(observed_connections) ==
    IF ~TruthyList(observed_connections) THEN {}
    ELSE LET cs == observed_connections[1]
         IN {cs[i]["remote_port"] :
                i \in {j \in 1..Len(cs) : Get(cs[j], "remote_port", 0) # 0}}

\* min(xs)
Min(S) == CHOOSE x \in S : \A y \in S : x <= y

\* variant: the thresholds are compared with >=
remote_port_criteria_inclusive(remote_ports) ==
    IF remote_ports = {} THEN <<>>
    ELSE IF Min(remote_ports) >= 49152 THEN "remote_port_gte" :> 49152
    ELSE IF Min(remote_ports) >= 1024 THEN "remote_port_gte" :> 1024
    ELSE <<>>

\* the remote_port_gte entry of match_criteria
remote_port_criteria(remote_ports) ==
    IF remote_ports = {} THEN <<>>
    ELSE IF Min(remote_ports) > 49152 THEN "remote_port_gte" :> 49152
    ELSE IF Min(remote_ports) > 1024 THEN "remote_port_gte" :> 1024
    ELSE <<>>

\* the state / state_in entry of match_criteria; listing is list(states), the
\* members of the set in the order the interpreter happens to iterate them
state_criteria(states, listing) ==
    IF states = {} THEN <<>>
    ELSE IF Cardinality(states) = 1 THEN "state" :> listing[1]
    ELSE "state_in" :> listing

\* every list(S) can be: the members of S, each once, in some order
Listings(S) ==
    {f \in [1..Cardinality(S) -> S] : \A i, j \in DOMAIN f : i # j => f[i] # f[j]}

\* suggest_new_rule(pattern_description, observed_connections): the fields
\* severity, tags and match_criteria of suggested_rule
suggest_new_rule(pattern_description, observed_connections, listing) ==
    Let(detected_tags(pattern_description), LAMBDA tags :
        [severity |-> suggested_severity(tags),
         tags |-> tags,
         match_criteria |->
            IF ~TruthyList(observed_connections) THEN <<>>
            ELSE state_criteria(observed_states(observed_connections), listing)
                 @@ remote_port_criteria(observed_remote_ports(observed_connections))])

-----------------------------------------------------------------------------
(* Inputs of the suggester.                                                *)

DescriptionWords ==
    {"C2", "beacon", "Large TRANSFER", "port scanning", "{baekdoeo}", "hello"}

Descriptions ==
    {"", "C2 beacon pattern detected", "Unexpected BIND"}
    \cup {a \o " " \o b : a, b \in DescriptionWords}

\* a sample connection dict with the keys that are present
Sample(state, remote_port) == Entry("state", state) @@ Entry("remote_port", remote_port)

SamplePool ==
    {Sample(Some("listen"), Some(0)),
     Sample(Some("LISTEN"), None),
     Sample(Some("ESTABLISHED"), Some(49153)),
     Sample(Some("established"), Some(49152)),
     Sample(None, Some(1025)),
     Sample(Some(""), Some(443)),
     Sample(Some("TIME_WAIT"), Some(1024))}

ObservedConnections ==
    {None} \cup {Some(cs) : cs \in SeqUpTo(SamplePool, MaxSamples)}

GInit ==
    /\ g_description \in Descriptions
    /\ g_samples \in ObservedConnections
    /\ g_out = None

\* one call suggest_new_rule(pattern_description, observed_connections)
SuggestNewRule ==
    /\ g_out = None
    /\ \E listing \in Listings(observed_states(g_samples)) :
           g_out' = Some(suggest_new_rule(g_description, g_samples, listing))
    /\ UNCHANGED <<g_description, g_samples>>

-----------------------------------------------------------------------------
(* Inputs of the classifier: addresses as psutil reports them, next to     *)
(* truncated and malformed strings.                                        *)

AddressHeads ==
    {"", "127.", "10.", "192.168.", "192.169.", "172.", "1172.", "8.8.", "203.0.",
     "0.0.", "fe80:", "fe81:", "::", "x"}
AddressTails ==
    {"", "0.0", "0.1", "8.8", "113.5", "16.0.1", "31.255.255", "32.0.1", "15.0.1",
     "x.0.1", "+16.0.1", "1"}

Addresses == {h \o t : h \in AddressHeads, t \in AddressTails}

CInit ==
    /\ c_ip \in Addresses
    /\ c_out = None
    /\ c_server_out = None

\* one call _is_private_ip(ip)
Classify ==
    /\ c_out = None
    /\ c_out' = Some(_is_private_ip(c_ip))
    /\ UNCHANGED <<c_ip, c_server_out>>

\* one call of server.py's _is_private_ip(ip)
ClassifyServer ==
    /\ c_server_out = None
    /\ c_server_out' = Some(server_is_private_ip(c_ip))
    /\ UNCHANGED <<c_ip, c_out>>

-----------------------------------------------------------------------------
(* Specifications.  Each fixes the variables of the other components.      *)

MIdle == m_rule = DetectionRule("", "", "", {}, <<>>) /\ m_conn = <<>> /\ m_out = None
AIdle == a_conn = <<>> /\ a_config = EmptyConfig /\ a_out = None
SIdle == document = Document(FALSE, None) /\ _detection_config = None /\ result = None
BIdle == b_net = NetConnections(TRUE, <<>>) /\ b_pids = None /\ b_remotes = None /\ b_out = None
CIdle == c_ip = "" /\ c_out = None /\ c_server_out = None
GIdle == g_description = "" /\ g_samples = None /\ g_out = None
EIdle ==
    /\ e_net = NetConnections(TRUE, <<>>)
    /\ e_pid = None /\ e_remote_address = None /\ e_remote_port = None

\* the rule matcher applied to one rule and one connection
InitMatch == MInit /\ AIdle /\ SIdle /\ BIdle /\ CIdle /\ GIdle /\ EIdle
NextMatch == Evaluate /\ UNCHANGED <<a_vars, s_vars, b_vars, c_vars, g_vars, e_vars>>
SpecMatch == InitMatch /\ [][NextMatch]_vars

\* the connection analyzer applied to one connection and one rule store
InitAnalyze == AInit /\ MIdle /\ SIdle /\ BIdle /\ CIdle /\ GIdle /\ EIdle
NextAnalyze == Analyze /\ UNCHANGED <<m_vars, s_vars, b_vars, c_vars, g_vars, e_vars>>
SpecAnalyze == InitAnalyze /\ [][NextAnalyze]_vars

\* the baseline differ applied to one inventory and one baseline
InitBaseline == BInit /\ MIdle /\ AIdle /\ SIdle /\ CIdle /\ GIdle /\ EIdle
NextBaseline == CompareBaseline /\ UNCHANGED <<m_vars, a_vars, s_vars, c_vars, g_vars, e_vars>>
SpecBaseline == InitBaseline /\ [][NextBaseline]_vars

\* the private-address classifier applied to one address
InitClassify == CInit /\ MIdle /\ AIdle /\ SIdle /\ BIdle /\ GIdle /\ EIdle
NextClassify ==
    \/ Classify /\ UNCHANGED <<m_vars, a_vars, s_vars, b_vars, g_vars, e_vars>>
    \/ ClassifyServer /\ UNCHANGED <<m_vars, a_vars, s_vars, b_vars, g_vars, e_vars>>
SpecClassify == InitClassify /\ [][NextClassify]_vars

\* the rule suggester applied to one description and one list of samples
InitSuggest == GInit /\ MIdle /\ AIdle /\ SIdle /\ BIdle /\ CIdle /\ EIdle
NextSuggest == SuggestNewRule /\ UNCHANGED <<m_vars, a_vars, s_vars, b_vars, c_vars, e_vars>>
SpecSuggest == InitSuggest /\ [][NextSuggest]_vars

\* the tool explain_connection called with one selector on one inventory
InitExplain == EInit /\ MIdle /\ AIdle /\ BIdle /\ CIdle /\ GIdle
NextExplain == ExplainConnection /\ UNCHANGED <<m_vars, a_vars, b_vars, c_vars, g_vars>>
SpecExplain == InitExplain /\ [][NextExplain]_vars

\* the server process: the cached rule store, the document and the tools
Init == SInit /\ MIdle /\ AIdle /\ BIdle /\ CIdle /\ GIdle /\ EIdle
Next ==
    \/ WriteDocument /\ UNCHANGED <<m_vars, a_vars, b_vars, c_vars, g_vars, e_vars>>
    \/ AnalyzeConnections /\ UNCHANGED <<m_vars, a_vars, b_vars, c_vars, g_vars, e_vars>>
    \/ AnalyzeSpecConsistency /\ UNCHANGED <<m_vars, a_vars, b_vars, c_vars, g_vars, e_vars>>
Spec == Init /\ [][Next]_vars

-----------------------------------------------------------------------------
(* Properties of the rule matcher (SpecMatch).                             *)

\* the condition of each predicate key as the rule table states it
StateHolds(match, conn) ==
    Upper(Get(conn, "state", "")) = Upper(match["state"])
StateInHolds(match, conn) ==
    \E i \in 1..Len(match["state_in"]) :
        Upper(match["state_in"][i]) = Upper(Get(conn, "state", ""))
RemotePortGteHolds(match, conn) == Get(conn, "remote_port", 0) >= match["remote_port_gte"]
LocalPortGteHolds(match, conn) == Get(conn, "local_port", 0) >= match["local_port_gte"]
LocalPortLteHolds(match, conn) == Get(conn, "local_port", 0) <= match["local_port_lte"]

PlainKeys == {"state", "state_in", "remote_port_gte", "local_port_gte", "local_port_lte"}

KeyHolds(key, match, conn) ==
    CASE key = "state" -> StateHolds(match, conn)
      [] key = "state_in" -> StateInHolds(match, conn)
      [] key = "remote_port_gte" -> RemotePortGteHolds(match, conn)
      [] key = "local_port_gte" -> LocalPortGteHolds(match, conn)
      [] key = "local_port_lte" -> LocalPortLteHolds(match, conn)

PlainKeysHold(match, conn) ==
    \A key \in PlainKeys \cap DOMAIN match : KeyHolds(key, match, conn)

HasOutbound(match) == "direction" \in DOMAIN match /\ match["direction"] = "outbound"
HasExclude(match) == "exclude_private_ips" \in DOMAIN match

\* the remote address is non-empty and not classified private
ExternalRemote(conn) ==
    LET remote == Get(conn, "remote_address", "")
    IN remote # "" /\ ~_is_private_ip(remote)

\* direction=outbound as the rule table states it: it holds for an external
\* remote address and is tolerated for a private one unless exclude_private_ips
\* is present
DirectionHolds(match, conn) == ExternalRemote(conn) \/ ~HasExclude(match)

MatchEvaluated == m_out # None

C2_FailingKeyNoMatch ==
    MatchEvaluated =>
        /\ (\E key \in PlainKeys \cap DOMAIN m_rule.match :
                ~KeyHolds(key, m_rule.match, m_conn))
            => m_out[1] = [matched |-> FALSE, reasons |-> <<>>]
        /\ m_out[1].matched <=> (m_out[1].reasons # <<>>)

\* the state key held, local_port_lte failed, and the outcome is (False, [])
C2_Witness ==
    /\ MatchEvaluated
    /\ {"state", "local_port_lte"} \subseteq DOMAIN m_rule.match
    /\ StateHolds(m_rule.match, m_conn)
    /\ ~LocalPortLteHolds(m_rule.match, m_conn)
    /\ ~m_out[1].matched

DirectionReason == "direction=outbound (external IP)"

\* C3 as stated, for a rule with direction=outbound whose other keys hold:
\* an external remote address adds the direction reason; a private or empty
\* one adds no reason and causes no failure when exclude_private_ips is
\* absent, and makes the rule fail when exclude_private_ips is present.
C3_DirectionOutbound ==
    (MatchEvaluated /\ HasOutbound(m_rule.match) /\ PlainKeysHold(m_rule.match, m_conn)) =>
        /\ ExternalRemote(m_conn) =>
               m_out[1].matched /\ InList(DirectionReason, m_out[1].reasons)
        /\ (~ExternalRemote(m_conn) /\ ~HasExclude(m_rule.match)) =>
               /\ ~InList(DirectionReason, m_out[1].reasons)
               /\ m_out[1].matched <=> (PlainKeys \cap DOMAIN m_rule.match # {})
        /\ (~ExternalRemote(m_conn) /\ HasExclude(m_rule.match)) =>
               ~m_out[1].matched

\* C4: a rule without predicate keys, or with direction=outbound as its only
\* predicate key and a private or empty remote address, gives (False, []).
C4_EmptyEffectiveMatch ==
    (/\ MatchEvaluated
     /\ PlainKeys \cap DOMAIN m_rule.match = {}
     /\ HasOutbound(m_rule.match) => ~ExternalRemote(m_conn))
        => m_out[1] = [matched |-> FALSE, reasons |-> <<>>]

\* a rule holding only direction=outbound met a private remote address
C4_Witness ==
    /\ MatchEvaluated
    /\ DOMAIN m_rule.match = {"direction"}
    /\ HasOutbound(m_rule.match)
    /\ Get(m_conn, "remote_address", "") = "10.0.0.5"
    /\ ~m_out[1].matched

-----------------------------------------------------------------------------
(* Properties of the connection analyzer (SpecAnalyze).                    *)

Analyzed == a_out # None

\* the positions of the rules of the store that match the connection
MatchingRules(conn, config) ==
    {i \in 1..Len(config.rules) : matches_connection(config.rules[i], conn).matched}

\* the k-th smallest member of a set of positions
Kth(S, k) == CHOOSE i \in S : Cardinality({j \in S : j < i}) = k - 1

\* the largest member of a non-empty set of numbers, 0 for the empty set
MaxOf(S) == IF S = {} THEN 0 ELSE CHOOSE x \in S : \A y \in S : y <= x

\* the ordinal of the claim: unknown strings count as 0
Ordinal(sev) ==
    CASE sev = "normal" -> 0 [] sev = "low" -> 1 [] sev = "medium" -> 2
      [] sev = "high" -> 3 [] sev = "critical" -> 4 [] OTHER -> 0

\* C5: the ordinal of the analysis severity is at least the ordinal of every
\* matched rule's severity and equals their maximum; the severity is "normal"
\* when no rule matched.
C5_SeverityIsMaximum ==
    Analyzed =>
        LET hit == MatchingRules(a_conn, a_config)
            ords == {Ordinal(a_config.rules[i].severity) : i \in hit}
        IN /\ \A i \in hit : Ordinal(a_out[1].severity) >= Ordinal(a_config.rules[i].severity)
           /\ Ordinal(a_out[1].severity) = MaxOf(ords)
           /\ hit = {} => a_out[1].severity = "normal"

\* two rules matched and the first has the higher severity
C5_Witness ==
    /\ Analyzed
    /\ Len(a_out[1].matched_rules) = 2
    /\ Ordinal(a_out[1].matched_rules[1].severity) > Ordinal(a_out[1].matched_rules[2].severity)
    /\ Ordinal(a_out[1].matched_rules[2].severity) > 0
    /\ a_out[1].severity = a_out[1].matched_rules[1].severity

\* C6: is_suspicious holds exactly when some rule matched, and matched_rules
\* has one entry per matching rule, in declaration order, duplicate ids
\* included.
C6_OneEntryPerMatch ==
    Analyzed =>
        LET hit == MatchingRules(a_conn, a_config)
            entries == a_out[1].matched_rules
        IN /\ a_out[1].is_suspicious <=> (hit # {})
           /\ Len(entries) = Cardinality(hit)
           /\ \A k \in 1..Len(entries) :
                  LET rule == a_config.rules[Kth(hit, k)]
                  IN entries[k] = [rule_id |-> rule.id, rule_name |-> rule.name,
                                   severity |-> rule.severity,
                                   reasons |-> matches_connection(rule, a_conn).reasons]

\* two different rules with the same id matched and gave two entries
C6_Witness ==
    /\ Analyzed
    /\ a_out[1].is_suspicious
    /\ Len(a_out[1].matched_rules) = 2
    /\ a_out[1].matched_rules[1].rule_id = a_out[1].matched_rules[2].rule_id
    /\ a_out[1].matched_rules[1].rule_name # a_out[1].matched_rules[2].rule_name

-----------------------------------------------------------------------------
(* Properties of analyze_connections (Spec).                               *)

\* the last tool call was analyze_connections and the rule store was loaded
Reported ==
    /\ result # None
    /\ result[1].op = "analyze_connections"
    /\ result[1].raised # "YAMLError"

\* C7: with an empty rule store every analysis has is_suspicious = false and
\* severity "normal", suspicious_count is 0 and every connection is in the
\* normal bucket.
C7_EmptyStoreAllNormal ==
    (Reported /\ result[1].config.rules = <<>>) =>
        LET r == result[1]
        IN /\ r.raised = ""
           /\ \A i \in 1..Len(r.connections) :
                  LET analysis == analyze_connection(r.connections[i], r.config)
                  IN ~analysis.is_suspicious /\ analysis.severity = "normal"
           /\ r.report.summary.suspicious_count = 0
           /\ r.findings["normal"] = r.connections

\* the document is missing, the store is empty, two connections were listed
C7_Witness ==
    /\ Reported
    /\ ~document.exists
    /\ result[1].config = EmptyConfig
    /\ Len(result[1].connections) >= 2
    /\ result[1].report.summary.suspicious_count = 0

\* the bucket of the i-th listed connection according to its analysis
BucketOf(r, i) ==
    LET analysis == analyze_connection(r.connections[i], r.config)
    IN IF analysis.is_suspicious THEN analysis.severity ELSE "normal"

BucketNames == {"critical", "high", "medium", "low", "normal"}

\* C8: every connection is in exactly one bucket, normal when it is not
\* suspicious and the bucket of its severity otherwise, and suspicious_count
\* = total_connections - len(normal) = the sum of the by_severity counts.
C8_BucketsConsistent ==
    Reported =>
        LET r == result[1]
            total == r.report.summary.total_connections
            by == r.report.summary.by_severity
        IN /\ r.raised = ""
           /\ DOMAIN r.findings = BucketNames
           /\ \A i \in 1..Len(r.connections) : BucketOf(r, i) \in BucketNames
           /\ \A b \in BucketNames :
                  LET members == {i \in 1..Len(r.connections) : BucketOf(r, i) = b}
                  IN /\ Len(r.findings[b]) = Cardinality(members)
                     /\ \A k \in 1..Len(r.findings[b]) :
                            LET conn == r.connections[Kth(members, k)]
                            IN IF b = "normal" /\ ~analyze_connection(conn, r.config).is_suspicious
                               THEN r.findings[b][k] = conn
                               ELSE r.findings[b][k].connection.pid = conn.pid
           /\ total = Len(r.connections)
           /\ r.report.summary.suspicious_count = total - Len(r.findings["normal"])
           /\ r.report.summary.suspicious_count = by.critical + by.high + by.medium + by.low
           /\ \A b \in BucketNames \ {"normal"} :
                  by[b] = Len(r.findings[b]) /\ r.report.findings[b] = r.findings[b]

\* two connections, exactly one of them matching a critical rule
C8_Witness ==
    /\ Reported
    /\ result[1].report.summary.total_connections = 2
    /\ result[1].report.summary.suspicious_count = 1
    /\ result[1].report.summary.by_severity.critical = 1
    /\ Len(result[1].findings["normal"]) = 1

-----------------------------------------------------------------------------
(* Properties of compare_baseline (SpecBaseline).                          *)

Compared == b_out # None

\* the baseline names at least one entry
Supplied(opt) == opt # None /\ opt[1] # <<>>

\* C9: new_pids is current_pids minus the supplied pids and empty when none
\* is supplied, new_remote_endpoints likewise for the 'ip:port' endpoints of
\* the connections whose remote address is set and not 0.0.0.0; a baseline
\* equal to the current sets leaves both empty.
C9_BaselineDifference ==
    Compared =>
        LET o == b_out[1]
            listed == 1..Len(o.connections)
        IN /\ o.current_remotes =
                  {Endpoint(o.connections[i].remote_address, o.connections[i].remote_port) :
                      i \in {j \in listed : o.connections[j].remote_address \notin {"", "0.0.0.0"}}}
           /\ o.report.new_pids =
                  IF Supplied(b_pids) THEN o.current_pids \ SetOf(b_pids) ELSE {}
           /\ o.report.new_remote_endpoints =
                  IF Supplied(b_remotes) THEN o.current_remotes \ SetOf(b_remotes) ELSE {}
           /\ (o.current_pids = SetOf(b_pids) /\ o.current_remotes = SetOf(b_remotes))
                  => (o.report.new_pids = {} /\ o.report.new_remote_endpoints = {})

\* a supplied baseline took one current pid and one current endpoint away and
\* left another of each
C9_Witness ==
    /\ Compared
    /\ Supplied(b_pids) /\ Supplied(b_remotes)
    /\ b_out[1].report.new_pids # {}
    /\ b_out[1].report.new_pids # b_out[1].current_pids
    /\ b_out[1].report.new_remote_endpoints # {}
    /\ b_out[1].report.new_remote_endpoints # b_out[1].current_remotes

\* C10: new_connections holds, in inventory order, exactly the current
\* connections whose endpoint is in new_remote_endpoints or whose pid is in
\* new_pids.
C10_NewConnections ==
    Compared =>
        LET o == b_out[1]
            fresh == {i \in 1..Len(o.connections) :
                         \/ Endpoint(o.connections[i].remote_address,
                                     o.connections[i].remote_port)
                                \in o.report.new_remote_endpoints
                         \/ o.connections[i].pid \in o.report.new_pids}
        IN /\ Len(o.report.new_connections) = Cardinality(fresh)
           /\ \A k \in 1..Len(o.report.new_connections) :
                  o.report.new_connections[k] = o.connections[Kth(fresh, k)]

\* a connection is reported for its new pid alone while another is left out
C10_Witness ==
    /\ Compared
    /\ b_out[1].report.new_remote_endpoints = {}
    /\ b_out[1].report.new_pids # {}
    /\ Len(b_out[1].report.new_connections) >= 1
    /\ Len(b_out[1].report.new_connections) < Len(b_out[1].connections)

-----------------------------------------------------------------------------
(* Properties of the private-address classifier (SpecClassify).            *)

Classified == c_out # None

\* the text after the first n characters
Drop(s, n) == SubSeq(s, n + 1, Len(s))

\* a decimal number of one to three digits, at most 255
IsOctet(s) == Len(s) \in 1..3 /\ AllDigits(s) /\ DigitsValue(s, 0) <= 255

\* four octets separated by dots
IsIPv4(ip) ==
    LET parts == Split(ip, ".")
    IN Len(parts) = 4 /\ \A i \in 1..4 : IsOctet(parts[i])

HexChars ==
    {"0", "1", "2", "3", "4", "5", "6", "7", "8", "9",
     "a", "b", "c", "d", "e", "f", "A", "B", "C", "D", "E", "F"}

\* groups of at most four hexadecimal digits separated by colons
IsIPv6(ip) ==
    LET groups == Split(ip, ":")
    IN /\ Len(groups) \in 3..8
       /\ \A i \in 1..Len(groups) :
              /\ Len(groups[i]) <= 4
              /\ \A k \in 1..Len(groups[i]) : SubSeq(groups[i], k, k) \in HexChars

Unparsable(ip) == ip # "" /\ ~IsIPv4(ip) /\ ~IsIPv6(ip)

\* the second dot-separated component reads as an integer within 16..31
SecondOctetPrivate(ip) ==
    LET rest == Split(Drop(ip, 4), ".")[1]
    IN ParseInt(rest) # None /\ ParseInt(rest)[1] \in 16..31

\* the addresses the classifier is said to name private by their form
ListedPrivate(ip) ==
    \/ \E p \in {"127.", "10.", "192.168.", "fe80:"} : StartsWith(ip, p)
    \/ StartsWith(ip, "172.") /\ SecondOctetPrivate(ip)
    \/ ip \in {"::1", "::", "0.0.0.0"}

\* C11 as stated: the classifier answers private for the listed forms, for the
\* empty address and for every unparsable input, and public for all the rest.
C11_ClassifierAsStated ==
    Classified => (c_out[1] <=> (ListedPrivate(c_ip) \/ c_ip = "" \/ Unparsable(c_ip)))

\* C11: the classifier answers private exactly for the listed forms and for the
\* empty address; every other input, an unparsable one included, is public.
C11_Classifier ==
    Classified => (c_out[1] <=> (ListedPrivate(c_ip) \/ c_ip = ""))

\* a 172. address outside 16..31 and an unparsable string were classified public
C11_Witness ==
    /\ Classified
    /\ c_ip \in {"172.32.0.1", "x16.0.1", "172.x.0.1", "8.8.8.8", "203.0.113.5"}
    /\ ~c_out[1]

-----------------------------------------------------------------------------
(* Properties of the rule-store cache (Spec).                              *)

\* a step of a tool: the environment's step is the one changing the document
ToolStep == document' = document /\ result' # None

Malformed(doc) == doc.exists /\ doc.data = None
Missing(doc) == ~doc.exists

\* C12: once get_detection_config has returned a store, the cached store never
\* changes, and every later tool call uses exactly that store without loading
\* the document, whatever was written to the document in between.
C12_BuiltOnce ==
    [][_detection_config # None =>
          /\ _detection_config' = _detection_config
          /\ ToolStep => /\ result'[1].loads = 0
                         /\ result'[1].config = _detection_config[1]]_vars

\* the empty store cached for a missing document is still the one in use after
\* a document with rules has been written
C12_Witness ==
    /\ _detection_config = Some(EmptyConfig)
    /\ document.exists /\ document.data # None
    /\ "rules" \in DOMAIN document.data[1] /\ Len(document.data[1]["rules"]) > 0
    /\ result # None
    /\ result[1].loads = 0
    /\ result[1].config = EmptyConfig

\* C13: with the cache unset, a tool call on a malformed document fails with the
\* parse error after attempting the load and leaves the cache unset (so does the
\* call after it); on a missing document the call loads without failing and the
\* store it caches has no rules and empty thresholds, tag definitions and styles.
C13_LoadFailures ==
    [][(_detection_config = None /\ ToolStep) =>
          /\ result'[1].loads = 1
          /\ Malformed(document) =>
                 /\ result'[1].raised = "YAMLError"
                 /\ _detection_config' = None
          /\ Missing(document) =>
                 /\ _detection_config' # None
                 /\ _detection_config'[1].rules = <<>>
                 /\ DOMAIN _detection_config'[1].thresholds = {}
                 /\ DOMAIN _detection_config'[1].tag_definitions = {}
                 /\ DOMAIN _detection_config'[1].highlight_styles = {}
                 /\ result'[1].config = _detection_config'[1]]_vars

\* a call has failed on the malformed document and the cache is still unset
C13_Witness ==
    /\ Malformed(document)
    /\ _detection_config = None
    /\ result # None
    /\ result[1].raised = "YAMLError"
    /\ result[1].loads = 1

-----------------------------------------------------------------------------
(* Properties of the rule suggester (SpecSuggest).                         *)

Suggested == g_out # None

\* word occurs in s when letter case is ignored
OccursIgnoringCase(word, s) ==
    Let(Upper(s), LAMBDA text : Let(Upper(word), LAMBDA w : Contains(text, w)))

\* the tags whose keyword list has a word occurring in the description
KeywordTags(description) ==
    {keywords[k].tag :
        k \in {j \in 1..Len(keywords) :
                  \E i \in 1..Len(keywords[j].words) :
                      OccursIgnoringCase(keywords[j].words[i], description)}}

TagSet(out) == {out.tags[i] : i \in 1..Len(out.tags)}

\* C14: the suggested tags are exactly the tags with a keyword occurring in the
\* description, letter case ignored, or the single tag anomaly when there is
\* none; the severity is high when c2, exfiltration or backdoor is among them
\* and medium otherwise.
C14_TagsAndSeverity ==
    Suggested =>
        /\ Len(g_out[1].tags) = Cardinality(TagSet(g_out[1]))
        /\ TagSet(g_out[1]) = IF KeywordTags(g_description) = {} THEN {"anomaly"}
                              ELSE KeywordTags(g_description)
        /\ g_out[1].severity =
               IF TagSet(g_out[1]) \cap {"c2", "exfiltration", "backdoor"} # {}
               THEN "high" ELSE "medium"
        /\ g_description = "C2 beacon pattern detected" =>
               TagSet(g_out[1]) = {"c2", "beacon"} /\ g_out[1].severity = "high"

\* the example of the description naming c2 and beacon in capitals
C14_Witness ==
    /\ Suggested
    /\ g_description = "C2 beacon pattern detected"
    /\ g_out[1].tags = <<"beacon", "c2">>
    /\ g_out[1].severity = "high"

\* the samples handed over, none when the argument is None
SamplesOf(observed) == IF observed = None THEN <<>> ELSE observed[1]

\* the distinct uppercased states the samples carry
SampleStates(samples) ==
    {Upper(samples[i]["state"]) :
        i \in {j \in 1..Len(samples) : "state" \in DOMAIN samples[j] /\ samples[j]["state"] # ""}}

\* the remote ports the samples carry; 0 stands for no remote endpoint
SamplePorts(samples) ==
    {samples[i]["remote_port"] :
        i \in {j \in 1..Len(samples) :
                  "remote_port" \in DOMAIN samples[j] /\ samples[j]["remote_port"] # 0}}

ItemsOf(xs) == {xs[i] : i \in 1..Len(xs)}

\* C15: with samples, one distinct uppercased state gives the state predicate
\* alone, two or more give state_in holding exactly those states; the minimum
\* observed remote port m gives remote_port_gte 49152 when m > 49152, 1024 when
\* 1024 < m <= 49152 and no port predicate otherwise; without samples the match
\* criteria are empty.
C15_MatchCriteria ==
    Suggested =>
        LET mc == g_out[1].match_criteria
            samples == SamplesOf(g_samples)
            states == SampleStates(samples)
            ports == SamplePorts(samples)
        IN /\ DOMAIN mc \subseteq {"state", "state_in", "remote_port_gte"}
           /\ Len(samples) = 0 => DOMAIN mc = {}
           /\ Len(samples) > 0 =>
                 /\ "state" \in DOMAIN mc <=> Cardinality(states) = 1
                 /\ "state" \in DOMAIN mc => states = {mc["state"]}
                 /\ "state_in" \in DOMAIN mc <=> Cardinality(states) >= 2
                 /\ "state_in" \in DOMAIN mc =>
                        /\ ItemsOf(mc["state_in"]) = states
                        /\ Len(mc["state_in"]) = Cardinality(states)
                 /\ "remote_port_gte" \in DOMAIN mc <=>
                        ports # {} /\ \A p \in ports : p > 1024
                 /\ "remote_port_gte" \in DOMAIN mc =>
                        mc["remote_port_gte"] =
                            IF \A p \in ports : p > 49152 THEN 49152 ELSE 1024

\* two states and a minimum remote port of exactly 49152
C15_Witness ==
    /\ Suggested
    /\ SamplePorts(SamplesOf(g_samples)) = {49152}
    /\ "state_in" \in DOMAIN g_out[1].match_criteria
    /\ g_out[1].match_criteria["remote_port_gte"] = 1024

-----------------------------------------------------------------------------
(* Properties of the consistency check (Spec).                             *)

ConsistencyCalled == result # None /\ result[1].op = "analyze_spec_consistency"
ConsistencyChecked == ConsistencyCalled /\ result[1].raised = ""

\* the state references of the store: <<k, 0>> is match["state"] of rule k,
\* <<k, i>> the i-th entry of its match["state_in"]
StateReferences(rules) ==
    {<<k, 0>> : k \in {j \in 1..Len(rules) : "state" \in DOMAIN rules[j].match}}
    \cup UNION {{<<k, i>> : i \in 1..Len(rules[k].match["state_in"])} :
                   k \in {j \in 1..Len(rules) : "state_in" \in DOMAIN rules[j].match}}

ReferencedState(rules, ref) ==
    IF ref[2] = 0 THEN rules[ref[1]].match["state"]
    ELSE rules[ref[1]].match["state_in"][ref[2]]

\* the references a warning is due for
Flagged(rules, vocabulary) ==
    {ref \in StateReferences(rules) :
        vocabulary # {} /\ Upper(ReferencedState(rules, ref)) \notin vocabulary}

WarningsFor(findings, rule_id, state) ==
    {n \in 1..Len(findings) :
        /\ findings[n].severity = "warning"
        /\ findings[n].rule_id = rule_id
        /\ Upper(findings[n].detail) = state}

\* C16: every state reference whose uppercased form is missing from a non-empty
\* vocabulary has one warning naming its rule, a reference whose uppercased form
\* is in the vocabulary has none, and with an empty vocabulary there is no
\* warning at all.
C16_StateWarnings ==
    ConsistencyChecked =>
        LET r == result[1]
            rules == r.config.rules
            vocabulary == r.network_map_states
        IN /\ CountSeverity(r.findings, "warning") = Cardinality(Flagged(rules, vocabulary))
           /\ \A ref \in StateReferences(rules) :
                  Cardinality(WarningsFor(r.findings, rules[ref[1]].id,
                                          Upper(ReferencedState(rules, ref))))
                  = Cardinality({other \in Flagged(rules, vocabulary) :
                                    /\ rules[other[1]].id = rules[ref[1]].id
                                    /\ Upper(ReferencedState(rules, other))
                                       = Upper(ReferencedState(rules, ref))})
           /\ vocabulary = {} => CountSeverity(r.findings, "warning") = 0

\* of two referenced states one is in the vocabulary and one is warned about
C16_Witness ==
    /\ ConsistencyChecked
    /\ result[1].network_map_states = {"ESTABLISHED"}
    /\ Flagged(result[1].config.rules, {"ESTABLISHED"}) # {}
    /\ Flagged(result[1].config.rules, {"ESTABLISHED"})
           # StateReferences(result[1].config.rules)
    /\ CountSeverity(result[1].findings, "warning") = 1

ErrorsFor(findings, rule_id) ==
    {n \in 1..Len(findings) :
        findings[n].severity = "error" /\ findings[n].rule_id = rule_id}

InvalidSeverity(rules) ==
    {k \in 1..Len(rules) : rules[k].severity \notin {"low", "medium", "high", "critical"}}

\* C17: each rule with a severity outside low, medium, high, critical has exactly
\* one error finding and no other rule has one; the summary counts the error and
\* the warning findings and their sum; a call raises only when a document could
\* not be parsed, never because of a finding.
C17_SeverityErrors ==
    ConsistencyCalled =>
        LET r == result[1]
            rules == r.config.rules
        IN /\ r.raised \in {"", "YAMLError"}
           /\ r.raised = "YAMLError" => (r.loads = 1 \/ Malformed(r.network_map))
           /\ r.raised = "" =>
                 /\ CountSeverity(r.findings, "error") = Cardinality(InvalidSeverity(rules))
                 /\ \A k \in 1..Len(rules) :
                        Cardinality(ErrorsFor(r.findings, rules[k].id))
                        = Cardinality({j \in InvalidSeverity(rules) :
                                          rules[j].id = rules[k].id})
                 /\ r.report.summary.errors = CountSeverity(r.findings, "error")
                 /\ r.report.summary.warnings = CountSeverity(r.findings, "warning")
                 /\ r.report.summary.total_findings
                        = r.report.summary.errors + r.report.summary.warnings
                 /\ r.report.summary.total_findings = Len(r.findings)
                 /\ r.report.findings = r.findings

\* a store with a valid and an invalid severity was checked: one error, reported
\* next to warnings
C17_Witness ==
    /\ ConsistencyChecked
    /\ Len(result[1].config.rules) = 2
    /\ Cardinality(InvalidSeverity(result[1].config.rules)) = 1
    /\ result[1].report.summary.errors = 1
    /\ result[1].report.summary.warnings > 0

-----------------------------------------------------------------------------
(* Properties of explain_connection (SpecExplain).                         *)

Explained ==
    /\ result # None
    /\ result[1].op = "explain_connection"
    /\ result[1].raised = ""

\* conn satisfies every selector that was supplied
Satisfies(conn, pid, remote_address, remote_port) ==
    /\ pid # None => conn.pid = pid[1]
    /\ remote_address # None => conn.remote_address = remote_address[1]
    /\ remote_port # None => conn.remote_port = remote_port[1]

\* the positions, in the inventory listing, of the connections satisfying the
\* selectors of the call
Selected ==
    LET current == list_connections(e_net, None, None)
    IN {i \in 1..Len(current) :
           Satisfies(current[i], e_pid, e_remote_address, e_remote_port)}

\* C18: explain_connection answers found=false exactly when no current
\* connection satisfies all supplied selectors, a pid or remote port of 0
\* included; otherwise the connection returned is the first one that does.
C18_ExplainSelectors ==
    Explained =>
        /\ ~result[1].report.found <=> Selected = {}
        /\ result[1].report.found =>
               \E i \in Selected :
                   /\ \A j \in Selected : i <= j
                   /\ result[1].report.connection
                          = list_connections(e_net, None, None)[i]

-----------------------------------------------------------------------------
(* Order of the rules (SpecAnalyze).                                       *)

\* the orders n rules can be listed in
Orders(n) == {p \in [1..n -> 1..n] : \A i, j \in 1..n : i # j => p[i] # p[j]}

\* the store with its rules listed in the order p
Reordered(config, p) ==
    [config EXCEPT !.rules = [i \in 1..Len(config.rules) |-> config.rules[p[i]]]]

\* two lists hold the same entries the same number of times
SameEntries(xs, ys) ==
    /\ Len(xs) = Len(ys)
    /\ \A k \in 1..Len(xs) :
           Cardinality({i \in 1..Len(xs) : xs[i] = xs[k]})
           = Cardinality({i \in 1..Len(ys) : ys[i] = xs[k]})

SameAnalysis(one, other) ==
    /\ other.is_suspicious = one.is_suspicious
    /\ other.severity = one.severity
    /\ other.tags = one.tags
    /\ other.match_reasons = one.match_reasons
    /\ SameEntries(one.matched_rules, other.matched_rules)

\* C19: listing the rules of the store in any other order gives the same
\* is_suspicious, severity, set of tags, set of match reasons and the same
\* matched-rule entries with the same multiplicities.
C19_OrderIndependent ==
    Analyzed =>
        \A p \in Orders(Len(a_config.rules)) :
            Let(analyze_connection(a_conn, Reordered(a_config, p)),
                LAMBDA other : SameAnalysis(a_out[1], other))

\* two different rules of different severities matched, the stronger one first
C19_Witness ==
    /\ Analyzed
    /\ Len(a_config.rules) = 2
    /\ Len(a_out[1].matched_rules) = 2
    /\ a_config.rules[1].severity # a_config.rules[2].severity
    /\ a_config.rules[1].tags # a_config.rules[2].tags
    /\ a_out[1].severity = a_config.rules[1].severity

-----------------------------------------------------------------------------
(* The suspicious count of analyze_connections (Spec).                     *)

\* the positions of the listed connections whose analysis is suspicious
SuspiciousConnections(r) ==
    {i \in 1..Len(r.connections) :
        analyze_connection(r.connections[i], r.config).is_suspicious}

\* C20: suspicious_count is the number of connections whose analysis has
\* is_suspicious = true, whatever severities the rules of the store carry, and
\* the normal bucket holds exactly the connections that matched no rule.
C20_SuspiciousCount ==
    (Reported /\ result[1].raised = "") =>
        /\ result[1].report.summary.suspicious_count
               = Cardinality(SuspiciousConnections(result[1]))
        /\ Len(result[1].findings["normal"])
               = Len(result[1].connections) - Cardinality(SuspiciousConnections(result[1]))

-----------------------------------------------------------------------------
(* The severity names and the buckets of analyze_connections (Spec).       *)

AnalyzeConnectionsCalled == result # None /\ result[1].op = "analyze_connections"

\* C21: whatever severity strings the rules of the store carry, the severity
\* analyze_connection returns for each listed connection is one of normal, low,
\* medium, high, critical, the lookup findings[severity] never fails, and the
\* report is produced; the call fails only when it could not parse the rule
\* document it had to load.
C21_SeverityNamesBucket ==
    AnalyzeConnectionsCalled =>
        /\ result[1].raised # "KeyError"
        /\ result[1].raised # "" => result[1].raised = "YAMLError" /\ result[1].loads = 1
        /\ result[1].raised = "" =>
               /\ \A i \in 1..Len(result[1].connections) :
                      analyze_connection(result[1].connections[i], result[1].config).severity
                          \in BucketNames
               /\ result[1].report.summary.total_connections = Len(result[1].connections)
               /\ result[1].report.rules_loaded = Len(result[1].config.rules)

\* a connection matched only a rule of severity info and was reported
C21_Witness ==
    /\ AnalyzeConnectionsCalled
    /\ result[1].raised = ""
    /\ \E k \in 1..Len(result[1].config.rules) :
           result[1].config.rules[k].severity \notin BucketNames
    /\ \E i \in 1..Len(result[1].connections) :
           Let(analyze_connection(result[1].connections[i], result[1].config),
               LAMBDA analysis : /\ analysis.is_suspicious
                                 /\ analysis.severity = "normal"
                                 /\ \A j \in 1..Len(analysis.matched_rules) :
                                        analysis.matched_rules[j].severity = "info")

-----------------------------------------------------------------------------
(* The two classifiers (SpecClassify).                                     *)

ClassifiedByBoth == c_out # None /\ c_server_out # None

\* C22: for every address string the classifier of server.py returns, without
\* raising, the verdict the classifier of the rule matcher returns.
C22_ClassifiersAgree ==
    ClassifiedByBoth =>
        /\ c_server_out[1].raised = ""
        /\ c_server_out[1].value = c_out[1]

-----------------------------------------------------------------------------
(* The suggested rule against its samples (SpecSuggest).                   *)

\* the DetectionRule the loader builds from the suggested rule
DraftRule(out) ==
    DetectionRule("draft", g_description, out.severity, TagSet(out), out.match_criteria)

\* C23: when samples were given and the suggested match criteria are not
\* empty, the suggested rule matches every sample under matches_connection,
\* samples without a state or with remote port 0 included.
C23_DraftMatchesSamples ==
    (Suggested /\ g_samples # None /\ DOMAIN g_out[1].match_criteria # {}) =>
        \A i \in 1..Len(g_samples[1]) :
            matches_connection(DraftRule(g_out[1]), g_samples[1][i]).matched

====
